---------------------------- MODULE Spec2Model ----------------------------
(***************************************************************************)
(* A model of four pieces of the battery-modelling library:                *)
(*   - Electrolyte.cation_conservation   (models/components/electrolyte)   *)
(*   - BaseThermal variable builders      (submodels/thermal/base_thermal)  *)
(*   - FastSingleSizeDistribution         (particle/size_distribution)      *)
(*   - the work-precision benchmark loop  (benchmarks/work_precision_sets)  *)
(* Each piece has its own variables, initial predicate and specification;  *)
(* a specification holds the variables of the other pieces fixed.          *)
(***************************************************************************)
EXTENDS Integers, Sequences, FiniteSets, TLC

VARIABLES
    \* ---- Electrolyte.cation_conservation ----
    el_called,      \* TRUE once cation_conservation has returned
    el_c,           \* argument c, shape (n,)
    el_j,           \* argument j, shape (n,)
    el_flux_arg,    \* argument flux_bcs as passed (None or a pair)
    el_flux_bcs,    \* local flux_bcs after the default was applied
    el_N_internal,  \* local N_internal
    el_N,           \* local N, the array handed to operators.div
    el_dcdt,        \* the returned array
    \* ---- BaseThermal ----
    th_variables,   \* the shared variables dictionary
    th_op,          \* the builder that ran last
    th_err,         \* the exception the last builder call ended in
    th_out,         \* the mapping the last builder produced
    \* ---- FastSingleSizeDistribution ----
    ps_domain,              \* self.domain: "Negative" or "Positive"
    ps_variables,           \* the variables dictionary handed to set_*
    ps_rhs,                 \* self.rhs
    ps_initial_conditions,  \* self.initial_conditions
    ps_events,              \* self.events
    ps_op,                  \* the method that ran last
    ps_err,                 \* the exception the last call ended in
    ps_c,                   \* the solver's current surface concentrations
    \* ---- work-precision benchmark script ----
    bm_pc,          \* position in the script
    bm_p,           \* index of the current entry of `parameters` (0: none yet)
    bm_t,           \* index of the current entry of `reltols` (0: none yet)
    bm_k,           \* the inner loop variable k
    bm_fresh,       \* number of objects constructed so far (object identities)
    bm_model,       \* identity of the object bound to `model`
    bm_mesh,        \* identity of the object bound to `mesh`
    bm_disc,        \* identity of the object bound to `disc`
    bm_solver,      \* identity of the object bound to `solver`
    bm_time_points, \* len(time_points)
    bm_solves,      \* model identity -> number of solver.solve calls it was passed to
    bm_owner        \* model identity -> index of the parameter set it was built for

el_vars == <<el_called, el_c, el_j, el_flux_arg, el_flux_bcs, el_N_internal,
             el_N, el_dcdt>>

th_vars == <<th_variables, th_op, th_err, th_out>>

ps_vars == <<ps_domain, ps_variables, ps_rhs, ps_initial_conditions,
             ps_events, ps_op, ps_err, ps_c>>

bm_vars == <<bm_pc, bm_p, bm_t, bm_k, bm_fresh, bm_model, bm_mesh, bm_disc,
             bm_solver, bm_time_points, bm_solves, bm_owner>>

vars == <<el_vars, th_vars, ps_vars, bm_vars>>

-----------------------------------------------------------------------------
(* Generic array helpers (numpy arrays are sequences of integers).          *)

\* The last entry of a non-empty array.
Last(s) == s[Len(s)]

\* Elementwise negation of an array.
Neg(s) == [i \in 1..Len(s) |-> 0 - s[i]]

\* Elementwise scalar * array.
Scale(k, s) == [i \in 1..Len(s) |-> k * s[i]]

\* Elementwise array + array (equal shapes).
Plus(a, b) == [i \in 1..Len(a) |-> a[i] + b[i]]

\* All arrays of exactly length n over the value set V.
ArraysOf(V, n) == [1..n -> V]

-----------------------------------------------------------------------------
(* Thermal submodel: fields, dictionary and the operators it uses           *)

\* Mesh points per sub-domain (negative electrode, separator, positive
\* electrode).
NPts == 2
\* Field amplitudes of the upstream variables are drawn from 0..MaxAmp.
MaxAmp == 1
\* Temperature amplitudes are drawn from 0..MaxT.
MaxT == 1

\* The parameter object self.param (positive dimensionless groups).
param ==
    [Delta_T |-> 2, T_ref |-> 3, ThetaInv |-> 2, i_typ |-> 2,
     potential_scale |-> 3, L_x |-> 2, l_cn |-> 1, l_cp |-> 1, l |-> 3]

\* A dictionary key "<name>" (unit "") or "<name> [<unit>]".
Key(name) == <<name, "">>
KeyU(name, unit) == <<name, unit>>

\* The empty dictionary.
EmptyDict == [k \in {} |-> 0]

\* dict.update(u): the entries of u replace or extend those of d.
Update(d, u) == u @@ d

\* A field on one electrode or the separator / on the whole cell.
ElectrodeField(v) == [i \in 1..NPts |-> v * i]
CellField(v) == [i \in 1..(3 * NPts) |-> v * i]

\* pybamm.FullBroadcast(0, [domain], "current collector").
FullBroadcastZero == [i \in 1..NPts |-> 0]

\* pybamm.Concatenation(a, b, c), left to right across the cell.
Concatenation(a, b, c) == a \o b \o c

\* symbol.orphans of a three-part concatenation.
Orphans(f) ==
    << SubSeq(f, 1, NPts), SubSeq(f, NPts + 1, 2 * NPts),
       SubSeq(f, 2 * NPts + 1, 3 * NPts) >>

\* pybamm.grad on a field, one-sided at the last point.
PybammGrad(f) ==
    [i \in 1..Len(f) |->
        IF Len(f) = 1 THEN 0
        ELSE IF i < Len(f) THEN f[i + 1] - f[i] ELSE f[i] - f[i - 1]]

\* pybamm.inner(a, b): pointwise product.
Inner(a, b) == [i \in 1..Len(a) |-> a[i] * b[i]]

\* scalar + field.
AddScalar(k, f) == [i \in 1..Len(f) |-> k + f[i]]

RECURSIVE SumSeq(_)
SumSeq(f) == IF f = <<>> THEN 0 ELSE f[1] + SumSeq(Tail(f))

\* pybamm.x_average on a uniform mesh: an exact fraction num/den.
XAverage(f) == [num |-> SumSeq(f), den |-> Len(f)]

\* scalar * fraction + scalar.
RatAffine(k, r, b) == [num |-> k * r.num + b * r.den, den |-> r.den]

\* BaseThermal._yz_average in a one-dimensional current collector.
yz_average(var) == var

\* BaseThermal._flux_law: Fourier's law with unit conductivity.
flux_law(T) == Neg(PybammGrad(T))

\* BaseThermal._current_collector_heating: none in one dimension.
current_collector_heating(variables) == <<0, 0>>

\* BaseThermal._x_average, lines 173-188.
x_average_cc(var, var_cn, var_cp) ==
    LET xa == XAverage(var)
    IN  [num |-> (param.l_cn * var_cn + param.l_cp * var_cp) * xa.den + xa.num,
         den |-> xa.den * param.l]

-----------------------------------------------------------------------------
(* Electrolyte                                                               *)

\* Largest number of cells n of the concentration array.
MaxN == 3
\* Concentration values are drawn from 0..MaxC.
MaxC == 1
\* Boundary flux values are drawn from 0..MaxFlux.
MaxFlux == 2
\* The parameter param.s.
ParamS == 1

\* Python's None for the optional argument flux_bcs (a pair has length 2).
None == <<>>

\* operators.grad: cell values (n,) to interior edge values (n-1,).
Grad(c) == [i \in 1..(Len(c) - 1) |-> c[i + 1] - c[i]]

\* operators.div: edge values (m,) to cell values (m-1,).
Div(flux) == [i \in 1..(Len(flux) - 1) |-> flux[i + 1] - flux[i]]

\* A faulty default: a unit flux on the right boundary.
bcs_cation_flux_unit == << <<0>>, <<1>> >>

\* Electrolyte._bcs_cation_flux: the no-flux pair.
bcs_cation_flux == << <<0>>, <<0>> >>

\* Lines 43-44: the default replaces flux_bcs only when it is None.
DefaultedFluxBcs(flux_bcs) ==
    IF flux_bcs = None THEN bcs_cation_flux ELSE flux_bcs

\* A faulty assembly: right boundary first.
ConcatenateFluxSwapped(flux_bc_left, N_internal, flux_bc_right) ==
    flux_bc_right \o N_internal \o flux_bc_left

\* Line 48: np.concatenate([flux_bc_left, N_internal, flux_bc_right]).
ConcatenateFlux(flux_bc_left, N_internal, flux_bc_right) ==
    flux_bc_left \o N_internal \o flux_bc_right

\* The arguments a caller may pass.
ConcentrationArrays == UNION {ArraysOf(0..MaxC, n) : n \in 1..MaxN}
CurrentArrays(n) == {[i \in 1..n |-> 0], [i \in 1..n |-> i]}
FluxBcArrays == ArraysOf(0..MaxFlux, 1)
FluxBcsArgs == {None} \cup {<<l, r>> : l \in FluxBcArrays, r \in FluxBcArrays}

\* The arguments of the call are drawn first; the locals are still unset.
ElInit ==
    /\ el_called = FALSE
    /\ el_c \in ConcentrationArrays
    /\ el_j \in CurrentArrays(Len(el_c))
    /\ el_flux_arg \in FluxBcsArgs
    /\ el_flux_bcs = None
    /\ el_N_internal = <<>>
    /\ el_N = <<>>
    /\ el_dcdt = <<>>

\* The electrolyte component at rest (used by the other specifications).
ElIdle ==
    /\ el_called = FALSE
    /\ el_c = <<0>>
    /\ el_j = <<0>>
    /\ el_flux_arg = None
    /\ el_flux_bcs = None
    /\ el_N_internal = <<>>
    /\ el_N = <<>>
    /\ el_dcdt = <<>>

\* Electrolyte.cation_conservation(c, j, flux_bcs), lines 21-53.
cation_conservation(c, j, flux_bcs) ==
    LET N_internal == Neg(Grad(c))
        bcs == DefaultedFluxBcs(flux_bcs)
        flux_bc_left == bcs[1]
        flux_bc_right == bcs[2]
        flux == ConcatenateFlux(flux_bc_left, N_internal, flux_bc_right)
    IN  /\ el_called' = TRUE
        /\ el_c' = c
        /\ el_j' = j
        /\ el_flux_arg' = flux_bcs
        /\ el_flux_bcs' = bcs
        /\ el_N_internal' = N_internal
        /\ el_N' = flux
        /\ el_dcdt' = Plus(Neg(Div(flux)), Scale(ParamS, j))

ElCall ==
    /\ ~el_called
    /\ cation_conservation(el_c, el_j, el_flux_arg)
    /\ UNCHANGED <<th_vars, ps_vars, bm_vars>>

ElNext == ElCall


-----------------------------------------------------------------------------
(* C1: the flux array handed to operators.div is the left boundary flux,    *)
(* then the interior flux -grad(c) in its order, then the right boundary    *)
(* flux, for every array length n >= 1 and every supplied pair (L, R).      *)
C1_FluxOrder ==
    (el_called /\ el_flux_arg # None) =>
        LET L == el_flux_arg[1]
            R == el_flux_arg[2]
            n == Len(el_c)
        IN  /\ Len(el_N) = Len(L) + (n - 1) + Len(R)
            /\ \A i \in 1..Len(L) : el_N[i] = L[i]
            /\ \A i \in 1..(n - 1) :
                   el_N[Len(L) + i] = 0 - (el_c[i + 1] - el_c[i])
            /\ \A i \in 1..Len(R) : el_N[Len(L) + (n - 1) + i] = R[i]

\* A call with three cells, distinct boundary fluxes and a non-zero interior.
C1_Witness ==
    /\ el_called
    /\ Len(el_c) = 3
    /\ el_flux_arg = << <<1>>, <<2>> >>
    /\ el_c = <<0, 1, 0>>

(* C2: without flux_bcs the boundary fluxes are the no-flux pair ([0],[0]), *)
(* so the first and last entry of the flux array are 0; a supplied pair is  *)
(* used unchanged.                                                          *)
C2_DefaultNoFlux ==
    el_called =>
        /\ (el_flux_arg = None) =>
               /\ el_flux_bcs = << <<0>>, <<0>> >>
               /\ el_N[1] = 0
               /\ Last(el_N) = 0
        /\ (el_flux_arg # None) => el_flux_bcs = el_flux_arg

\* A call without flux_bcs on a non-uniform concentration.
C2_Witness ==
    /\ el_called
    /\ el_flux_arg = None
    /\ el_c = <<1, 0>>

-----------------------------------------------------------------------------
(* BaseThermal                                                               *)

\* The dictionary literal of lines 31-63, from the locals of lines 23-29.
FundamentalEntries(T, T_cn, T_cp) ==
    LET T_n == Orphans(T)[1]
        T_s == Orphans(T)[2]
        T_p == Orphans(T)[3]
        T_x_av == XAverage(T)
        T_vol_av == yz_average(T_x_av)
        q == flux_law(T)
        D == param.Delta_T
        R == param.T_ref
    IN  (Key("Negative current collector temperature") :> T_cn)
     @@ (KeyU("Negative current collector temperature", "K") :> D * T_cn)
     @@ (Key("X-averaged negative electrode temperature") :> XAverage(T_n))
     @@ (KeyU("X-averaged negative electrode temperature", "K")
            :> RatAffine(D, XAverage(T_n), R))
     @@ (Key("Negative electrode temperature") :> T_n)
     @@ (KeyU("Negative electrode temperature", "K")
            :> AddScalar(R, Scale(D, T_n)))
     @@ (Key("X-averaged separator temperature") :> XAverage(T_s))
     @@ (KeyU("X-averaged separator temperature", "K")
            :> RatAffine(D, XAverage(T_s), R))
     @@ (Key("Separator temperature") :> T_s)
     @@ (KeyU("Separator temperature", "K") :> AddScalar(R, Scale(D, T_s)))
     @@ (Key("X-averaged positive electrode temperature") :> XAverage(T_p))
     @@ (KeyU("X-averaged positive electrode temperature", "K")
            :> RatAffine(D, XAverage(T_p), R))
     @@ (Key("Positive electrode temperature") :> T_p)
     @@ (KeyU("Positive electrode temperature", "K")
            :> AddScalar(R, Scale(D, T_p)))
     @@ (Key("Positive current collector temperature") :> T_cp)
     @@ (KeyU("Positive current collector temperature", "K") :> D * T_cp)
     @@ (Key("Cell temperature") :> T)
     @@ (KeyU("Cell temperature", "K") :> AddScalar(R, Scale(D, T)))
     @@ (Key("X-averaged cell temperature") :> T_x_av)
     @@ (KeyU("X-averaged cell temperature", "K") :> RatAffine(D, T_x_av, R))
     @@ (Key("Volume-averaged cell temperature") :> T_vol_av)
     @@ (KeyU("Volume-averaged cell temperature", "K")
            :> RatAffine(D, T_vol_av, R))
     @@ (Key("Heat flux") :> q)
     @@ (KeyU("Heat flux", "W.m-2") :> q)

\* A dictionary restricted to the keys outside `missing`.
Without(d, missing) == [k \in (DOMAIN d) \ missing |-> d[k]]

\* The mapping with the dimensional heat flux forgotten.
get_standard_fundamental_variables_no_flux_unit(T, T_cn, T_cp) ==
    Without(FundamentalEntries(T, T_cn, T_cp), {KeyU("Heat flux", "W.m-2")})

\* _get_standard_fundamental_variables(T, T_cn, T_cp), lines 22-65.
get_standard_fundamental_variables(T, T_cn, T_cp) ==
    FundamentalEntries(T, T_cn, T_cp)

\* The keys _get_standard_coupled_variables reads, lines 71-89, in order.
CoupledReads ==
    << Key("Cell temperature"),
       Key("Negative electrode interfacial current density"),
       Key("Positive electrode interfacial current density"),
       Key("Negative electrode reaction overpotential"),
       Key("Positive electrode reaction overpotential"),
       Key("Negative electrode entropic change"),
       Key("Positive electrode entropic change"),
       Key("Electrolyte current density"),
       Key("Electrolyte potential"),
       Key("Negative electrode current density"),
       Key("Positive electrode current density"),
       Key("Negative electrode potential"),
       Key("Positive electrode potential") >>

CoupledReadKeys == {CoupledReads[i] : i \in 1..Len(CoupledReads)}

\* variables[key] on a dictionary without the key raises KeyError.
LookupError == "KeyError"

\* i_typ * potential_scale * Q / L_x on a field, as an exact fraction.
HeatingDim(Q) ==
    [num |-> Scale(param.i_typ * param.potential_scale, Q), den |-> param.L_x]

\* The same scaling on an averaged quantity.
HeatingDimAv(Q_av) ==
    [num |-> param.i_typ * param.potential_scale * Q_av.num,
     den |-> Q_av.den * param.L_x]

\* Line 121 with the reversible term left out.
TotalHeatingNoRev(Q_ohm, Q_rxn, Q_rev) == Plus(Q_ohm, Q_rxn)

\* Line 121: Q = Q_ohm + Q_rxn + Q_rev.
TotalHeating(Q_ohm, Q_rxn, Q_rev) == Plus(Plus(Q_ohm, Q_rxn), Q_rev)

\* Line 111-112 without the current density factor.
ReversibleHeatingNoJ(j, T, dUdT) ==
    Inner(AddScalar(param.ThetaInv, T), AddScalar(1, dUdT))

\* Lines 111-112: j * (Theta**(-1) + T) * dUdT on one electrode.
ReversibleHeating(j, T, dUdT) ==
    Inner(Inner(j, AddScalar(param.ThetaInv, T)), dUdT)

\* The entries lines 128-161 add, computed from the dictionary (lines 71-126).
CoupledEntries(variables) ==
    LET T == variables[Key("Cell temperature")]
        T_n == Orphans(T)[1]
        T_p == Orphans(T)[3]
        j_n == variables[Key("Negative electrode interfacial current density")]
        j_p == variables[Key("Positive electrode interfacial current density")]
        eta_r_n == variables[Key("Negative electrode reaction overpotential")]
        eta_r_p == variables[Key("Positive electrode reaction overpotential")]
        dUdT_n == variables[Key("Negative electrode entropic change")]
        dUdT_p == variables[Key("Positive electrode entropic change")]
        i_e == variables[Key("Electrolyte current density")]
        phi_e == variables[Key("Electrolyte potential")]
        i_s_n == variables[Key("Negative electrode current density")]
        i_s_p == variables[Key("Positive electrode current density")]
        phi_s_n == variables[Key("Negative electrode potential")]
        phi_s_p == variables[Key("Positive electrode potential")]
        Q_ohm_s_cn == current_collector_heating(variables)[1]
        Q_ohm_s_cp == current_collector_heating(variables)[2]
        Q_ohm_s_n == Neg(Inner(i_s_n, PybammGrad(phi_s_n)))
        Q_ohm_s_s == FullBroadcastZero
        Q_ohm_s_p == Neg(Inner(i_s_p, PybammGrad(phi_s_p)))
        Q_ohm_s == Concatenation(Q_ohm_s_n, Q_ohm_s_s, Q_ohm_s_p)
        Q_ohm_e == Neg(Inner(i_e, PybammGrad(phi_e)))
        Q_ohm == Plus(Q_ohm_s, Q_ohm_e)
        Q_rxn_n == Inner(j_n, eta_r_n)
        Q_rxn_p == Inner(j_p, eta_r_p)
        Q_rxn == Concatenation(Q_rxn_n, FullBroadcastZero, Q_rxn_p)
        Q_rev_n == ReversibleHeating(j_n, T_n, dUdT_n)
        Q_rev_p == ReversibleHeating(j_p, T_p, dUdT_p)
        Q_rev == Concatenation(Q_rev_n, FullBroadcastZero, Q_rev_p)
        Q == TotalHeating(Q_ohm, Q_rxn, Q_rev)
        Q_av == x_average_cc(Q, Q_ohm_s_cn, Q_ohm_s_cp)
        Q_vol_av == yz_average(Q_av)
    IN  (Key("Ohmic heating") :> Q_ohm)
     @@ (KeyU("Ohmic heating", "A.V.m-3") :> HeatingDim(Q_ohm))
     @@ (Key("Irreversible electrochemical heating") :> Q_rxn)
     @@ (KeyU("Irreversible electrochemical heating", "A.V.m-3")
            :> HeatingDim(Q_rxn))
     @@ (Key("Reversible heating") :> Q_rev)
     @@ (KeyU("Reversible heating", "A.V.m-3") :> HeatingDim(Q_rev))
     @@ (Key("Total heating") :> Q)
     @@ (KeyU("Total heating", "A.V.m-3") :> HeatingDim(Q))
     @@ (Key("X-averaged total heating") :> Q_av)
     @@ (KeyU("X-averaged total heating", "A.V.m-3") :> HeatingDimAv(Q_av))
     @@ (Key("Volume-averaged total heating") :> Q_vol_av)
     @@ (KeyU("Volume-averaged total heating", "A.V.m-3")
            :> HeatingDimAv(Q_vol_av))

\* A faulty build that registers the separator's zero heating before it
\* has read its inputs.
get_standard_coupled_variables_eager(variables) ==
    IF CoupledReadKeys \subseteq DOMAIN variables
    THEN [err |-> "none",
          variables |-> Update(variables, CoupledEntries(variables)),
          out |-> CoupledEntries(variables)]
    ELSE [err |-> LookupError,
          variables |->
              Update(variables,
                     Key("Ohmic heating")
                         :> Concatenation(FullBroadcastZero, FullBroadcastZero,
                                          FullBroadcastZero)),
          out |-> EmptyDict]

\* _get_standard_coupled_variables(variables), lines 67-162: every read of
\* lines 71-89 precedes the update of line 128, so a read of an absent key
\* raises before anything is written.
get_standard_coupled_variables(variables) ==
    IF CoupledReadKeys \subseteq DOMAIN variables
    THEN [err |-> "none",
          variables |-> Update(variables, CoupledEntries(variables)),
          out |-> CoupledEntries(variables)]
    ELSE [err |-> LookupError, variables |-> variables, out |-> EmptyDict]

\* The coupled_variables fixture of the thermal unit tests, generalised from
\* zero fields to fields of amplitude a.j (interfacial current densities),
\* a.i (current densities) and a.pot (overpotentials, entropic changes and
\* potentials, in the ratios 1 : 2 : 1).
coupled_variables(a) ==
    (Key("Negative electrode interfacial current density")
            :> ElectrodeField(a.j))
     @@ (Key("Positive electrode interfacial current density")
            :> ElectrodeField(a.j))
     @@ (Key("Negative electrode reaction overpotential")
            :> ElectrodeField(a.pot))
     @@ (Key("Positive electrode reaction overpotential")
            :> ElectrodeField(a.pot))
     @@ (Key("Negative electrode entropic change") :> ElectrodeField(2 * a.pot))
     @@ (Key("Positive electrode entropic change") :> ElectrodeField(2 * a.pot))
     @@ (Key("Electrolyte potential")
            :> Concatenation(ElectrodeField(a.pot), ElectrodeField(a.pot),
                             ElectrodeField(a.pot)))
     @@ (Key("Electrolyte current density")
            :> Concatenation(ElectrodeField(a.i), ElectrodeField(a.i),
                             ElectrodeField(a.i)))
     @@ (Key("Negative electrode potential") :> ElectrodeField(a.pot))
     @@ (Key("Negative electrode current density") :> ElectrodeField(a.i))
     @@ (Key("Positive electrode potential") :> ElectrodeField(a.pot))
     @@ (Key("Positive electrode current density") :> ElectrodeField(a.i))
     @@ (Key("Current collector current density") :> 1)

Amplitudes == [j : 0..MaxAmp, i : 0..MaxAmp, pot : 0..MaxAmp]

ZeroAmplitudes == [j |-> 0, i |-> 0, pot |-> 0]

UpstreamKeys == DOMAIN coupled_variables(ZeroAmplitudes)

ThIdle ==
    /\ th_variables = EmptyDict
    /\ th_op = "constructed"
    /\ th_err = "none"
    /\ th_out = EmptyDict

\* get_fundamental_variables of a thermal submodel: the mapping returned by
\* _get_standard_fundamental_variables is merged into the dictionary. The
\* model builder asks each submodel for its fundamental variables once.
ThFundamental ==
    \E t \in 0..MaxT, t_cn \in 0..MaxT, t_cp \in 0..MaxT :
        LET out == get_standard_fundamental_variables(CellField(t), t_cn, t_cp)
        IN  /\ Key("Cell temperature") \notin DOMAIN th_variables
            /\ th_variables' = Update(th_variables, out)
            /\ th_out' = out
            /\ th_op' = "fundamental"
            /\ th_err' = "none"
            /\ UNCHANGED <<el_vars, ps_vars, bm_vars>>

\* The upstream submodels (interface, electrolyte, electrode) contribute
\* their variables once; a submodel that was left out of the model, or built
\* too late, leaves one key out.
ThUpstream ==
    /\ UpstreamKeys \cap DOMAIN th_variables = {}
    /\ \E a \in Amplitudes :
        \E missing \in {{}} \cup {{k} : k \in UpstreamKeys} :
            /\ th_variables' =
                   Update(th_variables, Without(coupled_variables(a), missing))
            /\ th_op' = "upstream"
            /\ th_err' = "none"
            /\ UNCHANGED <<th_out, el_vars, ps_vars, bm_vars>>

\* get_coupled_variables of a thermal submodel: a call of
\* _get_standard_coupled_variables on the shared dictionary.
ThCoupled ==
    LET r == get_standard_coupled_variables(th_variables)
    IN  /\ th_op' = "coupled"
        /\ th_err' = r.err
        /\ th_variables' = r.variables
        /\ th_out' = r.out
        /\ UNCHANGED <<el_vars, ps_vars, bm_vars>>

ThNext == ThFundamental \/ ThUpstream \/ ThCoupled

-----------------------------------------------------------------------------
(* Claims about BaseThermal                                                  *)

HeatingKeys ==
    {Key("Ohmic heating"), Key("Irreversible electrochemical heating"),
     Key("Reversible heating"), Key("Total heating")}

IsZeroField(f) == \A i \in 1..Len(f) : f[i] = 0
IsNonZeroField(f) == \E i \in 1..Len(f) : f[i] # 0

(* C3: after a call of _get_standard_coupled_variables the entry under      *)
(* "Total heating" is the sum of the entries under "Ohmic heating",         *)
(* "Irreversible electrochemical heating" and "Reversible heating".         *)
C3_HeatBalance ==
    (Key("Total heating") \in DOMAIN th_variables) =>
        /\ HeatingKeys \subseteq DOMAIN th_variables
        /\ \A i \in 1..(3 * NPts) :
               th_variables[Key("Total heating")][i] =
                   th_variables[Key("Ohmic heating")][i]
                   + th_variables[Key("Irreversible electrochemical heating")][i]
                   + th_variables[Key("Reversible heating")][i]

\* A build with non-zero currents in which all three terms are non-zero.
C3_Witness ==
    /\ th_op = "coupled"
    /\ th_err = "none"
    /\ Key("Total heating") \in DOMAIN th_variables
    /\ IsNonZeroField(th_variables[Key("Ohmic heating")])
    /\ IsNonZeroField(th_variables[Key("Irreversible electrochemical heating")])
    /\ IsNonZeroField(th_variables[Key("Reversible heating")])
    /\ IsNonZeroField(
           th_variables[Key("Negative electrode interfacial current density")])

\* Every input the fixture supplies to the heating terms is the zero field.
ZeroFixtureInputs ==
    /\ CoupledReadKeys \subseteq DOMAIN th_variables
    /\ \A k \in CoupledReadKeys \ {Key("Cell temperature")} :
           IsZeroField(th_variables[k])

(* C4: with every interfacial current density, overpotential, entropic      *)
(* change, potential and current density the zero field, the ohmic, the     *)
(* irreversible, the reversible and the total heating are zero on the       *)
(* negative electrode, the separator and the positive electrode.            *)
C4_ZeroFixtureZeroHeating ==
    (th_op = "coupled" /\ th_err = "none" /\ ZeroFixtureInputs) =>
        \A h \in HeatingKeys :
            /\ h \in DOMAIN th_variables
            /\ \A d \in 1..3 : IsZeroField(Orphans(th_variables[h])[d])

\* The zero fixture built on a non-zero temperature field.
C4_Witness ==
    /\ th_op = "coupled"
    /\ th_err = "none"
    /\ ZeroFixtureInputs
    /\ IsNonZeroField(th_variables[Key("Cell temperature")])
    /\ Key("Total heating") \in DOMAIN th_variables

(* C7 as stated: a coupled-variable build that finds one of the keys it     *)
(* reads absent ends in MissingVariableError and adds no entry.             *)
C7_MissingVariableError ==
    [][(th_op' = "coupled" /\ ~(CoupledReadKeys \subseteq DOMAIN th_variables))
        => (th_err' = "MissingVariableError" /\ th_variables' = th_variables)]_vars

(* C7 amended: a coupled-variable build that finds one of the keys it reads *)
(* absent ends in the KeyError of the dictionary lookup and leaves the      *)
(* dictionary as it was: no heating entry is added.                         *)
C7_KeyErrorNothingAdded ==
    [][(th_op' = "coupled" /\ ~(CoupledReadKeys \subseteq DOMAIN th_variables))
        => (th_err' = "KeyError" /\ th_variables' = th_variables)]_vars

\* A failed build: the temperature is there, one upstream key is not.
C7_Witness ==
    /\ th_op = "coupled"
    /\ th_err = "KeyError"
    /\ Key("Cell temperature") \in DOMAIN th_variables
    /\ Cardinality(CoupledReadKeys \ DOMAIN th_variables) = 1
    /\ HeatingKeys \cap DOMAIN th_variables = {}

\* Every dimensionless key has a "[unit]" partner and the other way round.
Paired(keys) ==
    \A k \in keys :
        /\ (k[2] = "") => \E k2 \in keys : k2[1] = k[1] /\ k2[2] # ""
        /\ (k[2] # "") => <<k[1], "">> \in keys

(* C10: in the mapping _get_standard_fundamental_variables returns and in   *)
(* the entries _get_standard_coupled_variables adds, every key without a    *)
(* unit suffix has a counterpart of the same name with a " [unit]" suffix   *)
(* and every key with a unit suffix has its dimensionless counterpart.      *)
C10_UnitPairs ==
    (th_op \in {"fundamental", "coupled"}) => Paired(DOMAIN th_out)

\* Both builders have produced their entries.
C10_Witness ==
    /\ th_op = "coupled"
    /\ th_err = "none"
    /\ Cardinality(DOMAIN th_out) = 12
    /\ Cardinality(DOMAIN th_variables \ (DOMAIN th_out \cup UpstreamKeys)) = 24

\* The temperature quantities of lines 32-60, by the kind of their value.
CollectorTemperatures ==
    {"Negative current collector temperature",
     "Positive current collector temperature"}
FieldTemperatures ==
    {"Negative electrode temperature", "Separator temperature",
     "Positive electrode temperature", "Cell temperature"}
AveragedTemperatures ==
    {"X-averaged negative electrode temperature",
     "X-averaged separator temperature",
     "X-averaged positive electrode temperature",
     "X-averaged cell temperature", "Volume-averaged cell temperature"}

\* "<name> [K]" is Delta_T * "<name>" + T_ref, on fields and on averages.
FieldTemperaturesConverted ==
    \A n \in FieldTemperatures :
        th_out[KeyU(n, "K")] =
            AddScalar(param.T_ref, Scale(param.Delta_T, th_out[Key(n)]))
AveragedTemperaturesConverted ==
    \A n \in AveragedTemperatures :
        th_out[KeyU(n, "K")] =
            RatAffine(param.Delta_T, th_out[Key(n)], param.T_ref)

\* The same conversion on the two current collector temperatures.
CollectorTemperaturesConverted ==
    \A n \in CollectorTemperatures :
        th_out[KeyU(n, "K")] = param.Delta_T * th_out[Key(n)] + param.T_ref

\* A dimensional heat flux that is not the dimensionless expression itself
\* (they can only coincide where the flux vanishes).
HeatFluxScaled ==
    IsNonZeroField(th_out[Key("Heat flux")]) =>
        th_out[KeyU("Heat flux", "W.m-2")] # th_out[Key("Heat flux")]

(* C11: every "<name> [K]" entry built by                                   *)
(* _get_standard_fundamental_variables is Delta_T * "<name>" + T_ref, for   *)
(* all temperature quantities including the negative and the positive      *)
(* current collector temperature, and no "[unit]" entry is the unscaled     *)
(* dimensionless expression itself.                                         *)
C11_DimensionalConversion ==
    (th_op = "fundamental") =>
        /\ FieldTemperaturesConverted
        /\ AveragedTemperaturesConverted
        /\ CollectorTemperaturesConverted
        /\ HeatFluxScaled

\* What the code does keep: the conversion on the nine temperatures that are
\* fields or averages.
C11_NineTemperaturesConverted ==
    (th_op = "fundamental") =>
        (FieldTemperaturesConverted /\ AveragedTemperaturesConverted)

\* What the code does instead on the collectors and on the heat flux.
C11_CollectorsLackReference ==
    (th_op = "fundamental") =>
        /\ \A n \in CollectorTemperatures :
               th_out[KeyU(n, "K")] = param.Delta_T * th_out[Key(n)]
        /\ th_out[KeyU("Heat flux", "W.m-2")] = th_out[Key("Heat flux")]

-----------------------------------------------------------------------------
(* FastSingleSizeDistribution                                                *)

\* Number of particle sizes of the size mesh.
NSizes == 2
\* Largest number of set_events calls explored.
MaxEventCalls == 2
\* Interfacial current densities are drawn from -MaxJ..MaxJ.
MaxJ == 1
\* Particle sizes are drawn from 1..MaxR.
MaxR == 2

\* Concentrations are counted in units of 1e-4: the 1 of "1 - tol" ...
One == 10000
\* ... and tol = 1e-4.
Tol == 1

\* The parameters the submodel reads (positive dimensionless groups).
ps_param == [a_R_n |-> 2, a_R_p |-> 3, gamma_p |-> 2]

\* param.c_n_init(x) and param.c_p_init(x), linear initial profiles.
c_n_init(x) == 8000 - 1000 * x
c_p_init(x) == 6000 - 1000 * x

Domains == {"Negative", "Positive"}

\* str.lower() on the two domain names.
Lower(domain) == IF domain = "Negative" THEN "negative" ELSE "positive"

\* The dictionary keys the set_* methods build from self.domain.
ConcentrationKey(domain) ==
    <<"X-averaged", Lower(domain),
      "particle surface concentration distribution">>
CurrentKey(domain) ==
    <<"X-averaged", Lower(domain),
      "electrode interfacial current density distribution">>
SizesKey(domain) == <<domain, "particle sizes">>

\* The pybamm.Variable declared by get_fundamental_variables, lines 34-68.
ConcentrationVariable(domain) ==
    [name |-> ConcentrationKey(domain),
     domain |-> <<Lower(domain), "particle size">>,
     secondary |-> "current collector",
     bounds |-> <<0, One>>]

\* The dictionary the model builder hands to the set_* methods.
ParticleVariables(domain, j, R) ==
    (ConcentrationKey(domain) :> ConcentrationVariable(domain))
     @@ (CurrentKey(domain) :> j)
     @@ (SizesKey(domain) :> R)

\* The right-hand side without its current density.
RhsExpressionNoJ(domain, j, R) ==
    [i \in 1..Len(R) |->
        [num |-> 0 - 3,
         den |-> IF domain = "Negative" THEN ps_param.a_R_n * R[i]
                 ELSE ps_param.a_R_p * ps_param.gamma_p * R[i]]]

\* Lines 131-134 and 139-143: -3 * j / a_R / R (and / gamma_p), pointwise,
\* as exact fractions.
RhsExpression(domain, j, R) ==
    [i \in 1..Len(R) |->
        [num |-> (0 - 3) * j[i],
         den |-> IF domain = "Negative" THEN ps_param.a_R_n * R[i]
                 ELSE ps_param.a_R_p * ps_param.gamma_p * R[i]]]

\* pybamm.Event(name, expression, event_type).
Event(name, expression, event_type) ==
    [name |-> name, expression |-> expression, event_type |-> event_type]

\* The expression coef * reduce(c) + const over the variable c.
Reduction(reduce, c, coef, const) ==
    [reduce |-> reduce, of |-> c.name, coef |-> coef, const |-> const]

\* Line 179, pybamm.min(c) - tol, with the comparison the wrong way round.
MinimumExpressionFlipped(c) == Reduction("min", c, 0 - 1, Tol)

\* Line 179: pybamm.min(c) - tol.
MinimumExpression(c) == Reduction("min", c, 1, 0 - Tol)

\* Line 187: (1 - tol) - pybamm.max(c).
MaximumExpression(c) == Reduction("max", c, 0 - 1, One - Tol)

\* The two events of lines 176-190.
NewEvents(domain, c) ==
    << Event(<<"Minumum", Lower(domain), "particle surface concentration">>,
             MinimumExpression(c), "TERMINATION"),
       Event(<<"Maximum", Lower(domain), "particle surface concentration">>,
             MaximumExpression(c), "TERMINATION") >>

\* Lines 176 and 184: self.events.append(...), twice.
AppendEvents(events, new) == Append(Append(events, new[1]), new[2])

RECURSIVE MinSeq(_)
MinSeq(f) ==
    IF Len(f) = 1 THEN f[1]
    ELSE LET m == MinSeq(Tail(f)) IN IF f[1] < m THEN f[1] ELSE m

RECURSIVE MaxSeq(_)
MaxSeq(f) ==
    IF Len(f) = 1 THEN f[1]
    ELSE LET m == MaxSeq(Tail(f)) IN IF f[1] > m THEN f[1] ELSE m

\* The solver's evaluation of an event expression at the state c.
Evaluate(expression, c) ==
    expression.coef
        * (IF expression.reduce = "min" THEN MinSeq(c) ELSE MaxSeq(c))
    + expression.const

\* The inputs.
CurrentDistributions == ArraysOf((0 - MaxJ)..MaxJ, NSizes)
SizeArrays == ArraysOf(1..MaxR, NSizes)
ConcentrationValues ==
    {0, Tol, Tol + 1, One \div 2, One - Tol - 1, One - Tol, One}
ConcentrationDistributions == ArraysOf(ConcentrationValues, NSizes)

\* A submodel right after construction (BaseSubModel.__init__ leaves rhs,
\* initial_conditions and events empty), with the dictionary it will be
\* handed and the solver state c.
PsConstructed(variables, c) ==
    /\ ps_variables = variables
    /\ ps_rhs = EmptyDict
    /\ ps_initial_conditions = EmptyDict
    /\ ps_events = <<>>
    /\ ps_op = "constructed"
    /\ ps_err = "none"
    /\ ps_c = c

PsIdle ==
    /\ ps_domain = "Negative"
    /\ PsConstructed(EmptyDict, <<>>)

\* The build-stage specification: every dictionary the builder may hand
\* over, complete or with one key left out by a missing upstream submodel.
PsInit ==
    /\ ps_domain \in Domains
    /\ \E j \in CurrentDistributions, R \in SizeArrays :
        \E missing \in {{}} \cup {{k} : k \in {ConcentrationKey(ps_domain),
                                                 CurrentKey(ps_domain),
                                                 SizesKey(ps_domain)}} :
            PsConstructed(
                Without(ParticleVariables(ps_domain, j, R), missing),
                [i \in 1..NSizes |-> One \div 2])

\* The event specification: a complete dictionary, any solver state.
EvInit ==
    /\ ps_domain \in Domains
    /\ \E c \in ConcentrationDistributions :
        PsConstructed(
            ParticleVariables(ps_domain, [i \in 1..NSizes |-> 0],
                              [i \in 1..NSizes |-> 1]), c)

\* set_rhs(variables), lines 116-144.
SetRhs ==
    /\ ps_op' = "set_rhs"
    /\ IF {ConcentrationKey(ps_domain), CurrentKey(ps_domain),
           SizesKey(ps_domain)} \subseteq DOMAIN ps_variables
       THEN LET c_s_surf_xav_distribution ==
                    ps_variables[ConcentrationKey(ps_domain)]
                j_xav_distribution == ps_variables[CurrentKey(ps_domain)]
                R == ps_variables[SizesKey(ps_domain)]
            IN  /\ ps_rhs' = (c_s_surf_xav_distribution
                                :> RhsExpression(ps_domain, j_xav_distribution, R))
                /\ ps_err' = "none"
       ELSE /\ ps_err' = LookupError
            /\ UNCHANGED ps_rhs
    /\ UNCHANGED <<ps_domain, ps_variables, ps_initial_conditions, ps_events,
                   ps_c, el_vars, th_vars, bm_vars>>

\* set_initial_conditions(variables), lines 146-166.
SetInitialConditions ==
    /\ ps_op' = "set_initial_conditions"
    /\ IF ConcentrationKey(ps_domain) \in DOMAIN ps_variables
       THEN LET c_s_surf_xav_distribution ==
                    ps_variables[ConcentrationKey(ps_domain)]
                c_init == IF ps_domain = "Negative" THEN c_n_init(0)
                          ELSE c_p_init(1)
            IN  /\ ps_initial_conditions' = (c_s_surf_xav_distribution :> c_init)
                /\ ps_err' = "none"
       ELSE /\ ps_err' = LookupError
            /\ UNCHANGED ps_initial_conditions
    /\ UNCHANGED <<ps_domain, ps_variables, ps_rhs, ps_events, ps_c,
                   el_vars, th_vars, bm_vars>>

\* set_events(variables), lines 168-190.
SetEvents ==
    /\ Len(ps_events) < 2 * MaxEventCalls
    /\ ps_op' = "set_events"
    /\ IF ConcentrationKey(ps_domain) \in DOMAIN ps_variables
       THEN LET c_s_surf_xav_distribution ==
                    ps_variables[ConcentrationKey(ps_domain)]
            IN  /\ ps_events' =
                       AppendEvents(ps_events,
                           NewEvents(ps_domain, c_s_surf_xav_distribution))
                /\ ps_err' = "none"
       ELSE /\ ps_err' = LookupError
            /\ UNCHANGED ps_events
    /\ UNCHANGED <<ps_domain, ps_variables, ps_rhs, ps_initial_conditions,
                   ps_c, el_vars, th_vars, bm_vars>>

\* The external solver moves one surface concentration.
SolverStep ==
    /\ \E i \in 1..NSizes, v \in ConcentrationValues :
           ps_c' = [ps_c EXCEPT ![i] = v]
    /\ UNCHANGED <<ps_domain, ps_variables, ps_rhs, ps_initial_conditions,
                   ps_events, ps_op, ps_err, el_vars, th_vars, bm_vars>>

PsNext == SetRhs \/ SetInitialConditions \/ SetEvents

EvNext == SetEvents \/ SolverStep

-----------------------------------------------------------------------------
(* Claims about FastSingleSizeDistribution                                   *)

\* The registered events whose name starts with `word`.
EventsNamed(word) ==
    {n \in 1..Len(ps_events) : ps_events[n].name[1] = word}

(* C5: with tol = 1e-4, the minimum event expression min(c) - tol is        *)
(* positive exactly while every value of c is above tol and negative        *)
(* exactly when some value is below tol; the maximum event expression       *)
(* (1 - tol) - max(c) is positive exactly while every value of c is below   *)
(* 1 - tol and negative exactly when some value is above it; so neither     *)
(* event fires while c stays strictly inside the band, and one does as      *)
(* soon as c leaves [tol, 1 - tol].                                         *)
C5_EventBand ==
    (ps_events # <<>>) =>
        /\ EventsNamed("Minumum") # {}
        /\ EventsNamed("Maximum") # {}
        /\ \A n \in 1..Len(ps_events) :
               ps_events[n].event_type = "TERMINATION"
        /\ \A n \in EventsNamed("Minumum") :
               LET v == Evaluate(ps_events[n].expression, ps_c)
               IN  /\ (v > 0) <=> (\A i \in 1..Len(ps_c) : ps_c[i] > Tol)
                   /\ (v < 0) <=> (\E i \in 1..Len(ps_c) : ps_c[i] < Tol)
        /\ \A n \in EventsNamed("Maximum") :
               LET v == Evaluate(ps_events[n].expression, ps_c)
               IN  /\ (v > 0) <=> (\A i \in 1..Len(ps_c) : ps_c[i] < One - Tol)
                   /\ (v < 0) <=> (\E i \in 1..Len(ps_c) : ps_c[i] > One - Tol)
        /\ (\A i \in 1..Len(ps_c) : Tol < ps_c[i] /\ ps_c[i] < One - Tol) =>
               \A n \in 1..Len(ps_events) :
                   Evaluate(ps_events[n].expression, ps_c) > 0

\* Events registered, one concentration just inside the lower edge of the
\* band and one beyond its upper edge.
C5_Witness ==
    /\ Len(ps_events) = 2
    /\ ps_c[1] = Tol + 1
    /\ ps_c[NSizes] = One
    /\ Evaluate(ps_events[1].expression, ps_c) > 0
    /\ Evaluate(ps_events[2].expression, ps_c) < 0

(* C6: in both domains and for every positive size array R, when the        *)
(* x-averaged interfacial current density distribution is zero the          *)
(* right-hand side set_rhs registers for the surface concentration          *)
(* distribution is zero at every particle size, and set_rhs registers       *)
(* exactly one equation, keyed by that distribution variable.               *)
C6_ZeroCurrentZeroRhs ==
    (ps_op = "set_rhs" /\ ps_err = "none") =>
        LET c == ConcentrationVariable(ps_domain)
            j == ps_variables[CurrentKey(ps_domain)]
        IN  /\ DOMAIN ps_rhs = {c}
            /\ Cardinality(DOMAIN ps_rhs) = 1
            /\ Len(ps_rhs[c]) = NSizes
            /\ IsZeroField(j) =>
                   \A i \in 1..NSizes :
                       ps_rhs[c][i].num = 0 /\ ps_rhs[c][i].den > 0

\* set_rhs on a positive-electrode submodel with zero current and two
\* different particle sizes.
C6_Witness ==
    /\ ps_op = "set_rhs"
    /\ ps_err = "none"
    /\ ps_domain = "Positive"
    /\ IsZeroField(ps_variables[CurrentKey(ps_domain)])
    /\ ps_variables[SizesKey(ps_domain)][1] # ps_variables[SizesKey(ps_domain)][2]
    /\ ps_rhs # EmptyDict

(* C9: whatever build-stage calls were made on a submodel instance, rhs     *)
(* holds at most one equation, initial_conditions at most one entry, and    *)
(* events are either not yet set or exactly the minimum and the maximum     *)
(* TERMINATION event of its domain: a later call duplicates or changes      *)
(* none of them.                                                            *)
C9_EquationSetsFixed ==
    /\ Cardinality(DOMAIN ps_rhs) <= 1
    /\ Cardinality(DOMAIN ps_initial_conditions) <= 1
    /\ \/ ps_events = <<>>
       \/ ps_events = NewEvents(ps_domain, ConcentrationVariable(ps_domain))

-----------------------------------------------------------------------------
(* The work-precision benchmark script                                       *)

\* len(parameters), lines 6-13.
NumParameters == 6
\* len(reltols), lines 14-26.
NumReltols == 11
\* runs, line 67.
Runs == 100

\* No object is bound to the name yet.
Unbound == 0

BmInit ==
    /\ bm_pc = "for_params"
    /\ bm_p = 0
    /\ bm_t = 0
    /\ bm_k = 0
    /\ bm_fresh = 0
    /\ bm_model = Unbound
    /\ bm_mesh = Unbound
    /\ bm_disc = Unbound
    /\ bm_solver = Unbound
    /\ bm_time_points = 0
    /\ bm_solves = EmptyDict
    /\ bm_owner = EmptyDict

BmIdle == BmInit

\* The model built once, ahead of the loop over the parameter sets.
NewModelHoisted(model, fresh) == IF model = Unbound THEN fresh + 1 ELSE model

\* Line 33: model = pybamm.lithium_ion.SPM() inside the loop binds `model`
\* to a newly constructed object.
NewModel(model, fresh) == fresh + 1

\* solver.solve(model, t_eval=t_eval): the bookkeeping of which model object
\* the call received.
Solve(model) ==
    /\ bm_solves' =
           (model :> (IF model \in DOMAIN bm_solves THEN bm_solves[model] + 1
                      ELSE 1)) @@ bm_solves
    /\ bm_owner' =
           IF model \in DOMAIN bm_owner THEN bm_owner ELSE (model :> bm_p) @@ bm_owner

\* Lines 30-59: the next parameter set; a new model, mesh and discretisation.
BmNextParameters ==
    /\ bm_pc = "for_params"
    /\ bm_p < NumParameters
    /\ bm_p' = bm_p + 1
    /\ bm_time_points' = 0
    /\ bm_model' = NewModel(bm_model, bm_fresh)
    /\ bm_mesh' = bm_fresh + 2
    /\ bm_disc' = bm_fresh + 3
    /\ bm_fresh' = bm_fresh + 3
    /\ bm_t' = 0
    /\ bm_pc' = "for_tol"
    /\ UNCHANGED <<bm_k, bm_solver, bm_solves, bm_owner,
                   el_vars, th_vars, ps_vars>>

\* Lines 61-63: the next tolerance; a new solver.
BmNextReltol ==
    /\ bm_pc = "for_tol"
    /\ bm_t < NumReltols
    /\ bm_t' = bm_t + 1
    /\ bm_solver' = bm_fresh + 1
    /\ bm_fresh' = bm_fresh + 1
    /\ bm_pc' = "solve_first"
    /\ UNCHANGED <<bm_p, bm_k, bm_model, bm_mesh, bm_disc, bm_time_points,
                   bm_solves, bm_owner,
                   el_vars, th_vars, ps_vars>>

\* Lines 64-68: the untimed first solve, then the timed loop starts.
BmSolveFirst ==
    /\ bm_pc = "solve_first"
    /\ Solve(bm_model)
    /\ bm_k' = 0
    /\ bm_pc' = "runs"
    /\ UNCHANGED <<bm_p, bm_t, bm_fresh, bm_model, bm_mesh, bm_disc,
                   bm_solver, bm_time_points,
                   el_vars, th_vars, ps_vars>>

\* Lines 68-71: one timed solve.
BmRun ==
    /\ bm_pc = "runs"
    /\ bm_k < Runs
    /\ Solve(bm_model)
    /\ bm_k' = bm_k + 1
    /\ UNCHANGED <<bm_pc, bm_p, bm_t, bm_fresh, bm_model, bm_mesh, bm_disc,
                   bm_solver, bm_time_points,
                   el_vars, th_vars, ps_vars>>

\* Lines 72-74: the mean time of this tolerance is recorded.
BmRecordTime ==
    /\ bm_pc = "runs"
    /\ bm_k = Runs
    /\ bm_time_points' = bm_time_points + 1
    /\ bm_pc' = "for_tol"
    /\ UNCHANGED <<bm_p, bm_t, bm_k, bm_fresh, bm_model, bm_mesh, bm_disc,
                   bm_solver, bm_solves, bm_owner,
                   el_vars, th_vars, ps_vars>>

\* Line 75: all tolerances done, the curve of this parameter set is plotted.
BmPlot ==
    /\ bm_pc = "for_tol"
    /\ bm_t = NumReltols
    /\ bm_pc' = "for_params"
    /\ UNCHANGED <<bm_p, bm_t, bm_k, bm_fresh, bm_model, bm_mesh, bm_disc,
                   bm_solver, bm_time_points, bm_solves, bm_owner,
                   el_vars, th_vars, ps_vars>>

\* Lines 78-88: all parameter sets done, the figure is shown.
BmShow ==
    /\ bm_pc = "for_params"
    /\ bm_p = NumParameters
    /\ bm_pc' = "done"
    /\ UNCHANGED <<bm_p, bm_t, bm_k, bm_fresh, bm_model, bm_mesh, bm_disc,
                   bm_solver, bm_time_points, bm_solves, bm_owner,
                   el_vars, th_vars, ps_vars>>

BmNext ==
    \/ BmNextParameters
    \/ BmNextReltol
    \/ BmSolveFirst
    \/ BmRun
    \/ BmRecordTime
    \/ BmPlot
    \/ BmShow

-----------------------------------------------------------------------------
(* Claims about the benchmark script                                         *)

(* C8 as stated: every solver.solve call gets its own freshly assembled     *)
(* model: no model object that one solve call received is passed to a      *)
(* later solve call.                                                        *)
C8_FreshModelPerSolve ==
    \A m \in DOMAIN bm_solves : bm_solves[m] <= 1

(* C8 amended: every parameter set gets its own freshly assembled model,    *)
(* mesh and discretisation, which all solver.solve calls of that parameter  *)
(* set share (one untimed and 100 timed calls for each of 11 tolerances);   *)
(* no model that a solve of one parameter set received is passed to a     *)
(* solve of another parameter set.                                          *)
C8_FreshModelPerParameterSet ==
    /\ \A m \in DOMAIN bm_solves :
           /\ bm_owner[m] \in 1..bm_p
           /\ bm_solves[m] <= NumReltols * (Runs + 1)
           /\ (bm_owner[m] < bm_p) => (m # bm_model /\ bm_solves[m] = NumReltols * (Runs + 1))
    /\ \A m1, m2 \in DOMAIN bm_solves :
           (bm_owner[m1] = bm_owner[m2]) => (m1 = m2)
    /\ (bm_pc \in {"solve_first", "runs"}) =>
           /\ Cardinality({bm_model, bm_mesh, bm_disc, bm_solver}) = 4
           /\ (bm_model \in DOMAIN bm_solves) => (bm_owner[bm_model] = bm_p)

\* The script has finished: six models, each solved 1111 times.
C8_Witness ==
    /\ bm_pc = "done"
    /\ Cardinality(DOMAIN bm_solves) = NumParameters
    /\ \A m \in DOMAIN bm_solves : bm_solves[m] = NumReltols * (Runs + 1)

-----------------------------------------------------------------------------
(* Specifications: one per component, the other components at rest.          *)

InitElectrolyte == ElInit /\ ThIdle /\ PsIdle /\ BmIdle
SpecElectrolyte == InitElectrolyte /\ [][ElNext]_vars

InitThermal == ThIdle /\ ElIdle /\ PsIdle /\ BmIdle
SpecThermal == InitThermal /\ [][ThNext]_vars

InitParticle == PsInit /\ ElIdle /\ ThIdle /\ BmIdle
SpecParticle == InitParticle /\ [][PsNext]_vars

InitEvents == EvInit /\ ElIdle /\ ThIdle /\ BmIdle
SpecEvents == InitEvents /\ [][EvNext]_vars

InitBenchmark == BmInit /\ ElIdle /\ ThIdle /\ PsIdle
SpecBenchmark == InitBenchmark /\ [][BmNext]_vars

=============================================================================
